---------------------------- MODULE Spec2Model ----------------------------
(***************************************************************************)
(* Model of golevy/fullstack-chat-pdf:                                     *)
(*   - the file router (fetchAll, fetchFile, deleteFile, getFile) over the *)
(*     File table, with deleteFile split at its two awaited store calls;   *)
(*   - the NextAuth configuration of server/auth.ts: the redirect, jwt and *)
(*     session callbacks, Credentials.authorize, sendVerificationRequest   *)
(*     and the html() body's host escaping.                                *)
(* Strings the code inspects character by character (URLs, hosts) are      *)
(* sequences of one-character strings.                                     *)
(***************************************************************************)
EXTENDS Integers, Sequences, FiniteSets, Bags, TLC

VARIABLES
    files,      \* the File table: a set of rows [id, userId, key]
    inflight,   \* the bag of deleteFile requests suspended between findFirst and delete
    last,       \* the outcome of the router procedure that completed most recently
    url,        \* redirect callback: requested callback URL
    baseUrl,    \* redirect callback: the site's base URL
    redirected, \* redirect callback: [done, value]
    users,      \* the User table: a set of rows [email, hashedPassword]
    auth,       \* per sign-in form: outcome of the latest Credentials.authorize
    token,      \* per client: the JWT payload the client carries
    issued,     \* per client: the user the jwt callback received at the latest sign-in
    session,    \* per client: the session object returned by the latest session callback
    host,       \* sendVerificationRequest: host of the sign-in URL
    mail        \* sendVerificationRequest: [done, rejected, escapedHost, threw, message]

vars == <<files, inflight, last, url, baseUrl, redirected, users, auth,
          token, issued, session, host, mail>>

fileVars == <<files, inflight, last>>
redirectVars == <<url, baseUrl, redirected>>
credVars == <<users, auth>>
sessionVars == <<token, issued, session>>
mailVars == <<host, mail>>

nonFileVars == <<redirectVars, credVars, sessionVars, mailVars>>
nonRedirectVars == <<fileVars, credVars, sessionVars, mailVars>>
nonCredVars == <<fileVars, redirectVars, sessionVars, mailVars>>
nonSessionVars == <<fileVars, redirectVars, credVars, mailVars>>
nonMailVars == <<fileVars, redirectVars, credVars, sessionVars>>

-----------------------------------------------------------------------------
(* Bounds *)

NumFiles == 2
NumProcs == 2

(***************************************************************************)
(* File router (routers/file.ts)                                          *)
(***************************************************************************)

UserIds == {"A", "B"}
Keys == {"k1", "k2"}
FileIds == 1..NumFiles

Rows == [id : FileIds, userId : UserIds, key : Keys]

\* id is the table's primary key
UniqueIds(S) == \A f, g \in S : f.id = g.id => f = g

NoRequest == [op |-> "none", caller |-> "", id |-> 0, key |-> "",
              outcome |-> "none", value |-> {}]

\* NumProcs bounds the deleteFile requests that are under way at once
MaxInFlight == NumProcs

\* where-clauses of the four procedures
FetchAllWhere_unscoped(f, userId) == TRUE

FetchAllWhere(f, userId) == f.userId = userId

FetchFileWhere(f, id) == f.id = id

DeleteFileWhere_unscoped(f, id, userId) == f.id = id

DeleteFileWhere(f, id, userId) == f.id = id /\ f.userId = userId

DeleteWhere(f, id) == f.id = id

GetFileWhere(f, key, userId) == f.key = key /\ f.userId = userId

\* fetchAll: findMany({ where: { userId } })
fetchAll(caller) ==
    /\ last' = [op |-> "fetchAll", caller |-> caller, id |-> 0, key |-> "",
                outcome |-> "ok",
                value |-> {f \in files : FetchAllWhere(f, caller)}]
    /\ UNCHANGED <<files, inflight, nonFileVars>>

\* fetchFile: findFirst({ where: { id } }); NOT_FOUND when null
fetchFile(caller, id) ==
    LET match == {f \in files : FetchFileWhere(f, id)} IN
    /\ \/ /\ match = {}
          /\ last' = [op |-> "fetchFile", caller |-> caller, id |-> id, key |-> "",
                      outcome |-> "NOT_FOUND", value |-> {}]
       \/ \E f \in match :
             last' = [op |-> "fetchFile", caller |-> caller, id |-> id, key |-> "",
                      outcome |-> "ok", value |-> {f}]
    /\ UNCHANGED <<files, inflight, nonFileVars>>

\* deleteFile, up to the first await's result: findFirst({ where: { id, userId } });
\* NOT_FOUND when null, otherwise the request goes on to the delete
deleteFile_find(caller, id) ==
    LET match == {f \in files : DeleteFileWhere(f, id, caller)} IN
    /\ \/ /\ match = {}
          /\ last' = [op |-> "deleteFile", caller |-> caller, id |-> id, key |-> "",
                      outcome |-> "NOT_FOUND", value |-> {}]
          /\ UNCHANGED inflight
       \/ \E f \in match :
             /\ BagCardinality(inflight) < MaxInFlight
             /\ inflight' = inflight (+) SetToBag({[caller |-> caller, id |-> id, file |-> f]})
             /\ UNCHANGED last
    /\ UNCHANGED <<files, nonFileVars>>

\* deleteFile, second await, for the suspended request r: delete({ where: { id } }),
\* then return file. Prisma's delete rejects with error P2025 when no row
\* matches; the procedure does not catch it.
deleteFile_delete(r) ==
    LET match == {f \in files : DeleteWhere(f, r.id)} IN
    /\ BagIn(r, inflight)
    /\ inflight' = inflight (-) SetToBag({r})
    /\ UNCHANGED nonFileVars
    /\ \/ /\ match = {}
          /\ last' = [op |-> "deleteFile", caller |-> r.caller, id |-> r.id, key |-> "",
                      outcome |-> "P2025", value |-> {}]
          /\ UNCHANGED files
       \/ /\ match # {}
          /\ files' = files \ match
          /\ last' = [op |-> "deleteFile", caller |-> r.caller, id |-> r.id, key |-> "",
                      outcome |-> "ok", value |-> {r.file}]

\* getFile: findFirst({ where: { key, userId } }); NOT_FOUND when null
getFile(caller, key) ==
    LET match == {f \in files : GetFileWhere(f, key, caller)} IN
    /\ \/ /\ match = {}
          /\ last' = [op |-> "getFile", caller |-> caller, id |-> 0, key |-> key,
                      outcome |-> "NOT_FOUND", value |-> {}]
       \/ \E f \in match :
             last' = [op |-> "getFile", caller |-> caller, id |-> 0, key |-> key,
                      outcome |-> "ok", value |-> {f}]
    /\ UNCHANGED <<files, inflight, nonFileVars>>


FileInit ==
    /\ files \in {S \in SUBSET Rows : UniqueIds(S)}
    /\ inflight = EmptyBag
    /\ last = NoRequest

FileQuiet ==
    /\ files = {}
    /\ inflight = EmptyBag
    /\ last = NoRequest

FileNext ==
    \/ \E c \in UserIds : fetchAll(c)
    \/ \E c \in UserIds, i \in FileIds : fetchFile(c, i)
    \/ \E c \in UserIds, i \in FileIds : deleteFile_find(c, i)
    \/ \E r \in BagToSet(inflight) : deleteFile_delete(r)
    \/ \E c \in UserIds, k \in Keys : getFile(c, k)

-----------------------------------------------------------------------------
(***************************************************************************)
(* Redirect callback (server/auth.ts, authOptions.callbacks.redirect)     *)
(***************************************************************************)

MaxLabels == 2
MaxSegs == 2

Min(S) == CHOOSE x \in S : \A y \in S : x <= y

\* String.prototype.startsWith
startsWith(s, prefix) ==
    /\ Len(prefix) <= Len(s)
    /\ SubSeq(s, 1, Len(prefix)) = prefix

endsWith(s, suffix) ==
    /\ Len(suffix) <= Len(s)
    /\ SubSeq(s, Len(s) - Len(suffix) + 1, Len(s)) = suffix

SignoutPath == <<"/", "a", "p", "i", "/", "a", "u", "t", "h", "/",
                 "s", "i", "g", "n", "o", "u", "t">>

redirect(u, base) ==
    IF startsWith(u, base \o SignoutPath)
    THEN base
    ELSE IF startsWith(u, base) THEN u ELSE base

\* The absolute URLs the callback is tried on: scheme "://" host [":" port] path
Schemes == {<<"h", "t", "t", "p">>, <<"h", "t", "t", "p", "s">>}
SchemeSep == <<":", "/", "/">>
HostLabels == {"a", "b"}
Ports == {<<>>, <<":", "8">>, <<":", "8", "0">>}
PathPieces == {SignoutPath, <<"/", "d">>}

RECURSIVE JoinLabels(_)
JoinLabels(ls) ==
    IF Len(ls) = 1 THEN <<ls[1]>>
    ELSE <<ls[1], ".">> \o JoinLabels(Tail(ls))

RECURSIVE Flatten(_)
Flatten(ss) == IF ss = <<>> THEN <<>> ELSE Head(ss) \o Flatten(Tail(ss))

HostNames == {JoinLabels(ls) : ls \in UNION {[1..n -> HostLabels] : n \in 1..MaxLabels}}
Paths == {Flatten(ps) : ps \in UNION {[1..n -> PathPieces] : n \in 0..MaxSegs}}
BaseUrls == {s \o SchemeSep \o h \o p : s \in Schemes, h \in HostNames, p \in Ports}
Urls == {b \o p : b \in BaseUrls, p \in Paths}

\* Vocabulary of the properties, not of the code: what the WHATWG URL parser
\* makes of such a URL. The origin is the text up to the first "/" after the
\* scheme separator, the path is the rest.
AuthorityStart(u) ==
    Min({i \in 1..Len(u) : startsWith(SubSeq(u, i, Len(u)), SchemeSep)}) + Len(SchemeSep)

PathStart(u) ==
    LET slashes == {i \in AuthorityStart(u)..Len(u) : u[i] = "/"} IN
    IF slashes = {} THEN Len(u) + 1 ELSE Min(slashes)

Origin(u) == SubSeq(u, 1, PathStart(u) - 1)
PathOf(u) == SubSeq(u, PathStart(u), Len(u))
TargetsSignout(u) == endsWith(PathOf(u), SignoutPath)

RedirectInit ==
    /\ baseUrl \in BaseUrls
    /\ url \in Urls
    /\ redirected = [done |-> FALSE, value |-> <<>>]

RedirectQuiet ==
    /\ baseUrl = <<>>
    /\ url = <<>>
    /\ redirected = [done |-> FALSE, value |-> <<>>]

Redirect ==
    /\ ~redirected.done
    /\ redirected' = [done |-> TRUE, value |-> redirect(url, baseUrl)]
    /\ UNCHANGED <<url, baseUrl, nonRedirectVars>>

-----------------------------------------------------------------------------
(***************************************************************************)
(* Credentials.authorize (server/auth.ts)                                  *)
(***************************************************************************)

NumForms == 2

Forms == 1..NumForms
Emails == {"a@x", "b@x"}
Passwords == {"p1", "p2"}

\* bcrypt: the stored hash of a password; a null hashedPassword is <<>>
BcryptHash(pw) == <<"$2b$", pw>>
compare(pw, hash) == hash = BcryptHash(pw)

UserRows == [email : Emails,
             hashedPassword : {<<>>} \cup {BcryptHash(pw) : pw \in Passwords}]

\* email is unique in the User table
UniqueEmails(S) == \A u, v \in S : u.email = v.email => u = v

\* db.user.findUnique({ where: { email } }): the set holding the row, or {} for null
findUnique(email) == {u \in users : u.email = email}

Rejected(reason, compared) == [outcome |-> reason, compared |-> compared, user |-> {}]

authorize_swapped(email, password) ==
    LET found == findUnique(email) IN
    IF email = "" \/ password = ""
    THEN Rejected("Email and password required", FALSE)
    ELSE IF found = {} \/ (CHOOSE u \in found : TRUE).hashedPassword = <<>>
    THEN Rejected("Incorrect password", FALSE)
    ELSE IF ~compare(password, (CHOOSE u \in found : TRUE).hashedPassword)
    THEN Rejected("Email does not exist", TRUE)
    ELSE [outcome |-> "ok", compared |-> TRUE, user |-> found]

authorize_nohashcheck(email, password) ==
    LET found == findUnique(email) IN
    IF email = "" \/ password = ""
    THEN Rejected("Email and password required", FALSE)
    ELSE IF found = {}
    THEN Rejected("Email does not exist", FALSE)
    ELSE IF ~compare(password, (CHOOSE u \in found : TRUE).hashedPassword)
    THEN Rejected("Incorrect password", TRUE)
    ELSE [outcome |-> "ok", compared |-> TRUE, user |-> found]

\* The result of authorize(credentials): the Error message thrown or "ok", whether
\* bcrypt's compare was called, and the user returned
authorize(email, password) ==
    LET found == findUnique(email) IN
    IF email = "" \/ password = ""
    THEN Rejected("Email and password required", FALSE)
    ELSE IF found = {} \/ (CHOOSE u \in found : TRUE).hashedPassword = <<>>
    THEN Rejected("Email does not exist", FALSE)
    ELSE IF ~compare(password, (CHOOSE u \in found : TRUE).hashedPassword)
    THEN Rejected("Incorrect password", TRUE)
    ELSE [outcome |-> "ok", compared |-> TRUE, user |-> found]

NoAttempt == [done |-> FALSE, email |-> "", password |-> "",
              outcome |-> "none", compared |-> FALSE, user |-> {}]

Authorize(s, email, password) ==
    LET r == authorize(email, password) IN
    /\ auth' = [auth EXCEPT ![s] =
                  [done |-> TRUE, email |-> email, password |-> password,
                   outcome |-> r.outcome, compared |-> r.compared, user |-> r.user]]
    /\ UNCHANGED <<users, nonCredVars>>

CredInit ==
    /\ users \in {S \in SUBSET UserRows : UniqueEmails(S)}
    /\ auth = [s \in Forms |-> NoAttempt]

CredQuiet ==
    /\ users = {}
    /\ auth = [s \in Forms |-> NoAttempt]

-----------------------------------------------------------------------------
(***************************************************************************)
(* jwt and session callbacks (server/auth.ts, authOptions.callbacks)      *)
(***************************************************************************)

NumClients == 2

Clients == 1..NumClients

\* The users a sign-in hands to the jwt callback; name "" stands for no name
SignInUsers == [id : {"u1", "u2"}, name : {"", "n1"}]

NoToken == [present |-> FALSE, name |-> "", id |-> ""]
NoSession == [made |-> FALSE, user |-> {}]

\* The session object NextAuth passes to the session callback: with or without
\* a user object, which has a name and no id yet
IncomingSessions ==
    {[made |-> TRUE, user |-> {}]}
        \cup {[made |-> TRUE, user |-> {[name |-> n, id |-> ""]}] : n \in {"", "n1"}}

jwt_unguarded(tok, user) ==
    IF user # {}
    THEN LET u == CHOOSE x \in user : TRUE IN [tok EXCEPT !.name = u.name, !.id = u.id]
    ELSE [tok EXCEPT !.name = "", !.id = ""]

\* jwt({ token, user }); user is {} when the callback runs without one
jwt(tok, user) ==
    IF user # {}
    THEN LET u == CHOOSE x \in user : TRUE IN [tok EXCEPT !.name = u.name, !.id = u.id]
    ELSE tok

\* session({ session, token })
sessionCallback(sess, tok) ==
    IF sess.user # {}
    THEN [sess EXCEPT !.user = {[name |-> tok.name, id |-> tok.id]}]
    ELSE sess

\* Sign-in: the jwt callback runs with the signed-in user
JwtSignIn(c, u) ==
    /\ token' = [token EXCEPT ![c] = jwt([token[c] EXCEPT !.present = TRUE], {u})]
    /\ issued' = [issued EXCEPT ![c] = u]
    /\ UNCHANGED <<session, nonSessionVars>>

\* A later request bearing the token: the jwt callback runs without a user
JwtRequest(c) ==
    /\ token[c].present
    /\ token' = [token EXCEPT ![c] = jwt(token[c], {})]
    /\ UNCHANGED <<issued, session, nonSessionVars>>

\* The session callback on that request's session object
SessionRequest(c, sess) ==
    /\ token[c].present
    /\ session' = [session EXCEPT ![c] = sessionCallback(sess, token[c])]
    /\ UNCHANGED <<token, issued, nonSessionVars>>

SessionInit ==
    /\ token = [c \in Clients |-> NoToken]
    /\ issued = [c \in Clients |-> [id |-> "", name |-> ""]]
    /\ session = [c \in Clients |-> NoSession]

-----------------------------------------------------------------------------
(***************************************************************************)
(* sendVerificationRequest and html (server/auth.ts)                       *)
(***************************************************************************)

MaxHostLen == 3
MaxRejected == 2

HostChars == {"a", "."}
Hosts == UNION {[1..n -> HostChars] : n \in 1..MaxHostLen}

\* Entries of the transport's result.rejected; "" is a falsy entry
Addresses == {"x@y", "z@y"}
RejectedLists == UNION {[1..n -> Addresses \cup {""}] : n \in 0..MaxRejected}

ZWSP == "&#8203;"

RECURSIVE escapedHost_after(_)
escapedHost_after(h) ==
    IF h = <<>> THEN <<>>
    ELSE (IF Head(h) = "." THEN <<".", ZWSP>> ELSE <<Head(h)>>)
             \o escapedHost_after(Tail(h))

\* host.replace(/\./g, "&#8203;.")
RECURSIVE escapedHost(_)
escapedHost(h) ==
    IF h = <<>> THEN <<>>
    ELSE (IF Head(h) = "." THEN <<ZWSP, ".">> ELSE <<Head(h)>>)
             \o escapedHost(Tail(h))

\* Array.prototype.join(", ")
RECURSIVE join(_)
join(xs) ==
    IF xs = <<>> THEN <<>>
    ELSE IF Len(xs) = 1 THEN <<xs[1]>>
    ELSE <<xs[1], ", ">> \o join(Tail(xs))

Truthy(x) == x # ""

failed_unfiltered(absent, rejected) == IF absent THEN <<>> ELSE rejected

\* result.rejected?.filter(Boolean) || []
failed(absent, rejected) == IF absent THEN <<>> ELSE SelectSeq(rejected, Truthy)

errorMessage(f) == <<"Email(s) (">> \o join(f) \o <<") could not be sent">>

NoMail == [done |-> FALSE, absent |-> FALSE, rejected |-> <<>>,
           escapedHost |-> <<>>, threw |-> FALSE, message |-> <<>>]

\* The whole of sendVerificationRequest: the bodies are rendered, the transport
\* answers with its result, and the rejected recipients decide the outcome
sendVerificationRequest(absent, rejected) ==
    LET f == failed(absent, rejected) IN
    /\ ~mail.done
    /\ mail' = [done |-> TRUE, absent |-> absent, rejected |-> rejected,
                escapedHost |-> escapedHost(host),
                threw |-> Len(f) # 0,
                message |-> IF Len(f) # 0 THEN errorMessage(f) ELSE <<>>]
    /\ UNCHANGED <<host, nonMailVars>>

MailInit ==
    /\ host \in Hosts
    /\ mail = NoMail

MailQuiet ==
    /\ host = <<>>
    /\ mail = NoMail

-----------------------------------------------------------------------------
(***************************************************************************)
(* Specifications                                                          *)
(***************************************************************************)

Init == FileInit /\ RedirectQuiet /\ CredQuiet /\ SessionInit /\ MailQuiet

Next == FileNext

Spec == Init /\ [][Next]_vars

InitRedirect == FileQuiet /\ RedirectInit /\ CredQuiet /\ SessionInit /\ MailQuiet

NextRedirect == Redirect

SpecRedirect == InitRedirect /\ [][NextRedirect]_vars

InitCred == FileQuiet /\ RedirectQuiet /\ CredInit /\ SessionInit /\ MailQuiet

NextCred ==
    \E s \in Forms, e \in Emails \cup {""}, pw \in Passwords \cup {""} :
        Authorize(s, e, pw)

SpecCred == InitCred /\ [][NextCred]_vars

InitSession == FileQuiet /\ RedirectQuiet /\ CredQuiet /\ SessionInit /\ MailQuiet

NextSession ==
    \/ \E c \in Clients, u \in SignInUsers : JwtSignIn(c, u)
    \/ \E c \in Clients : JwtRequest(c)
    \/ \E c \in Clients, sess \in IncomingSessions : SessionRequest(c, sess)

SpecSession == InitSession /\ [][NextSession]_vars

InitMail == FileQuiet /\ RedirectQuiet /\ CredQuiet /\ SessionInit /\ MailInit

NextMail ==
    \E absent \in BOOLEAN, rejected \in RejectedLists :
        /\ absent => rejected = <<>>
        /\ sendVerificationRequest(absent, rejected)

SpecMail == InitMail /\ [][NextMail]_vars

-----------------------------------------------------------------------------
(***************************************************************************)
(* Properties                                                              *)
(***************************************************************************)

\* C1: a deleteFile on a File owned by another user fails with NOT_FOUND and
\* leaves the File in the table; a File leaves the table only in the delete
\* step of a deleteFile whose caller owns it, whatever else is interleaved.
C1_DeleteFileOwnerScoped ==
    [][ /\ \A f \in files, c \in UserIds :
              (c # f.userId /\ deleteFile_find(c, f.id)) =>
                  /\ last'.op = "deleteFile"
                  /\ last'.caller = c
                  /\ last'.id = f.id
                  /\ last'.outcome = "NOT_FOUND"
                  /\ f \in files'
        /\ \A f \in files :
              f \notin files' =>
                  \E r \in BagToSet(inflight) :
                      /\ CopiesIn(r, inflight') < CopiesIn(r, inflight)
                      /\ r.id = f.id
                      /\ r.caller = f.userId
      ]_vars

C1_Witness ==
    /\ last.op = "deleteFile"
    /\ last.outcome = "NOT_FOUND"
    /\ \E f \in files : f.id = last.id /\ f.userId # last.caller

\* C9: every deleteFile invocation ends either having removed the File and
\* returning the deleted record, or failing with NOT_FOUND, and with no other
\* error.
C9_DeleteFileOutcomes ==
    last.op = "deleteFile" =>
        /\ last.outcome \in {"ok", "NOT_FOUND"}
        /\ last.outcome = "ok" => last.value \cap files = {}

\* C10: fetchAll returns exactly the caller's Files; getFile returns a File
\* only if the caller owns it and fails with NOT_FOUND otherwise; fetchFile
\* returns the File with the id to any caller and fails with NOT_FOUND exactly
\* when no File has the id; none of the three changes the table.
C10_ReadScopes ==
    [][ /\ \A c \in UserIds :
              fetchAll(c) =>
                  /\ last'.outcome = "ok"
                  /\ \A f \in Rows : f \in last'.value <=> (f \in files /\ f.userId = c)
                  /\ files' = files
        /\ \A c \in UserIds, k \in Keys :
              getFile(c, k) =>
                  LET mine == \E f \in files : f.key = k /\ f.userId = c IN
                  /\ last'.outcome = (IF mine THEN "ok" ELSE "NOT_FOUND")
                  /\ Cardinality(last'.value) = (IF mine THEN 1 ELSE 0)
                  /\ \A f \in last'.value : f \in files /\ f.key = k /\ f.userId = c
                  /\ files' = files
        /\ \A c \in UserIds, i \in FileIds :
              fetchFile(c, i) =>
                  LET exists == \E f \in files : f.id = i IN
                  /\ last'.outcome = (IF exists THEN "ok" ELSE "NOT_FOUND")
                  /\ Cardinality(last'.value) = (IF exists THEN 1 ELSE 0)
                  /\ \A f \in last'.value : f \in files /\ f.id = i
                  /\ files' = files
      ]_vars

C10_Witness ==
    /\ last.op = "fetchFile"
    /\ last.outcome = "ok"
    /\ \E f \in last.value : f.userId # last.caller /\ f \in files

\* C2: for every callback URL whose origin differs from the base URL's, the
\* redirect callback returns the base URL.
C2_CrossOriginFallsBack ==
    (redirected.done /\ Origin(url) # Origin(baseUrl)) => redirected.value = baseUrl

\* C3: for every callback URL whose path is or ends in /api/auth/signout, the
\* redirect callback returns the base URL.
C3_SignoutReturnsBase ==
    (redirected.done /\ TargetsSignout(url)) => redirected.value = baseUrl

\* C4: with email and password non-empty and no User with the email, authorize
\* rejects with "Email does not exist", does not call compare and returns no
\* user.
C4_UnknownAccount ==
    \A s \in Forms :
        (/\ auth[s].done
         /\ auth[s].email # ""
         /\ auth[s].password # ""
         /\ ~\E u \in users : u.email = auth[s].email)
        => /\ auth[s].outcome = "Email does not exist"
           /\ auth[s].outcome # "Incorrect password"
           /\ ~auth[s].compared
           /\ auth[s].user = {}

C4_Witness ==
    \E s \in Forms :
        /\ auth[s].done
        /\ auth[s].email # ""
        /\ auth[s].password # ""
        /\ ~\E u \in users : u.email = auth[s].email
        /\ \E u \in users : u.hashedPassword # <<>>

\* Which of the three failures an attempt is, read off the User table
FailureKind(a) ==
    LET found == {u \in users : u.email = a.email} IN
    IF ~a.done \/ a.email = "" \/ a.password = "" THEN "none"
    ELSE IF found = {} THEN "no account"
    ELSE IF \E u \in found : u.hashedPassword = <<>> THEN "no hash"
    ELSE IF \E u \in found : u.hashedPassword # <<"$2b$", a.password>> THEN "mismatch"
    ELSE "none"

\* C5 as stated: the three failures (no account, no stored hash, comparison
\* false) have pairwise distinct reasons.
C5_ThreeDistinctReasons ==
    \A s, t \in Forms :
        (/\ FailureKind(auth[s]) # "none"
         /\ FailureKind(auth[t]) # "none"
         /\ FailureKind(auth[s]) # FailureKind(auth[t]))
        => auth[s].outcome # auth[t].outcome

\* C5 amended: no account and no stored hash both give "Email does not exist";
\* a false comparison gives "Incorrect password", distinct from it.
C5_TwoReasons ==
    \A s \in Forms :
        /\ FailureKind(auth[s]) \in {"no account", "no hash"}
              => auth[s].outcome = "Email does not exist"
        /\ FailureKind(auth[s]) = "mismatch"
              => auth[s].outcome = "Incorrect password"

C5_Witness ==
    \E s, t \in Forms :
        /\ FailureKind(auth[s]) = "no account"
        /\ FailureKind(auth[t]) = "no hash"
        /\ auth[s].outcome = auth[t].outcome

\* C6: once the jwt callback has received user U, a jwt callback without a
\* user leaves the token's id and name those of U, and the session callback on
\* a session with a user object sets session.user.id and name to U's.
C6_SessionCarriesIssuedUser ==
    [][ \A c \in Clients :
          /\ JwtRequest(c) =>
                /\ token'[c].id = issued[c].id
                /\ token'[c].name = issued[c].name
          /\ \A sess \in IncomingSessions :
                (SessionRequest(c, sess) /\ sess.user # {}) =>
                    /\ session'[c].user = {[id |-> issued[c].id, name |-> issued[c].name]}
                    /\ token'[c].id = issued[c].id
                    /\ token'[c].name = issued[c].name
      ]_vars

C6_Witness ==
    \E c, d \in Clients :
        /\ token[c].present
        /\ token[d].present
        /\ issued[c].id # issued[d].id
        /\ session[c].user = {[id |-> issued[c].id, name |-> issued[c].name]}

IsAddress(x) == x \in Addresses

\* C7: sendVerificationRequest throws exactly when result.rejected holds a
\* non-empty entry, and the error lists exactly the non-empty rejected
\* addresses; otherwise it completes without error.
C7_ThrowsIffRejected ==
    mail.done =>
        /\ mail.threw <=>
              (~mail.absent /\ \E i \in 1..Len(mail.rejected) : mail.rejected[i] # "")
        /\ mail.threw =>
              SelectSeq(mail.message, IsAddress) = SelectSeq(mail.rejected, IsAddress)
        /\ ~mail.threw => mail.message = <<>>

C7_Witness ==
    /\ mail.done
    /\ mail.threw
    /\ \E i, j \in 1..Len(mail.rejected) : mail.rejected[i] = "" /\ mail.rejected[j] # ""

NotMarker(x) == x # ZWSP

HasDot(h) == \E i \in 1..Len(h) : h[i] = "."

\* C8 as stated: in the rendered host a marker follows each dot immediately,
\* there is no other marker, and removing the markers gives the host back.
C8_MarkerAfterEachDot ==
    (mail.done /\ HasDot(host)) =>
        LET e == mail.escapedHost IN
        /\ \A i \in 1..Len(e) : e[i] = "." => (i < Len(e) /\ e[i + 1] = ZWSP)
        /\ \A i \in 1..Len(e) : e[i] = ZWSP => (i > 1 /\ e[i - 1] = ".")
        /\ SelectSeq(e, NotMarker) = host

\* C8 amended: in the rendered host a marker precedes each dot immediately,
\* there is no other marker, and removing the markers gives the host back.
C8_MarkerBeforeEachDot ==
    (mail.done /\ HasDot(host)) =>
        LET e == mail.escapedHost IN
        /\ \A i \in 1..Len(e) : e[i] = "." => (i > 1 /\ e[i - 1] = ZWSP)
        /\ \A i \in 1..Len(e) : e[i] = ZWSP => (i < Len(e) /\ e[i + 1] = ".")
        /\ SelectSeq(e, NotMarker) = host

C8_Witness ==
    /\ mail.done
    /\ \E i, j \in 1..Len(host) : i # j /\ host[i] = "." /\ host[j] = "."
    /\ Len(mail.escapedHost) = Len(host) + 2

=============================================================================
